---- MODULE Spec2Model ----
(***************************************************************************)
(* Model of the workspaceBackend payment lifecycle (PaymentService,        *)
(* payment/employer/admin controllers, the scheduled jobs), of the         *)
(* monitoring-time planner (utils/helpers.js), of the efficiency scores    *)
(* and of the presence-monitoring jobs.                                    *)
(*                                                                         *)
(* Modelling decisions                                                     *)
(*  - The record store is schemaless: a handler's writes persist as the    *)
(*    handler makes them.                                                  *)
(*  - An async handler is split at the awaits across which another handler *)
(*    can observe or change the records it uses; `calls` holds the         *)
(*    handlers that are suspended at such an await.                        *)
(*  - The funds-transfer network is a collaborator: a transfer call either *)
(*    returns a result or throws.  The two call sites name the transfer    *)
(*    function by identifiers the source does not bind (paystackTransfer,  *)
(*    processPayment); the model takes them as bound to the network        *)
(*    client, since with them unbound no approval would ever succeed.      *)
(*  - Every other call is taken as written, including the unqualified      *)
(*    findOneAndUpdate of handleFailedTransferWebhook and the arguments    *)
(*    the sweeper passes to PaymentService.processDailyPayment.            *)
(*  - Time is counted in hours since a midnight.  Tick moves the clock to  *)
(*    the next instant at which a time-dependent condition changes (a cron *)
(*    firing, the end of an approval window).                              *)
(*  - One employer and one company; the payment lifecycle follows one      *)
(*    employee.                                                            *)
(*  - Presence monitoring is followed over one working day for two         *)
(*    employees.  A registered job that was not stopped may fire at any    *)
(*    time, once.  The snapshot and the face verification are a            *)
(*    collaborator: the call throws, fails, or reports a match or none.    *)
(*  - Array fields a handler pushes to (monitoringResults) start empty.    *)
(*  - SpecMonitor follows the monitoring jobs with deactivations,          *)
(*    SpecAttendance follows them with clock-out and employees who stay    *)
(*    active; SpecCapture follows FaceService.captureRandomImages.         *)
(***************************************************************************)
EXTENDS Integers, Sequences, FiniteSets, TLC

VARIABLES
    now,             \* wall clock, hours since a midnight
    cronDue,         \* cron jobs due at `now` that have not run yet
    payments,        \* the Payment collection, in creation order (_id = index)
    userBalance,     \* User.balance of the employer
    companyBalance,  \* Company.balance of the employer's company
    calls,           \* handlers suspended at an await
    debits,          \* history: balance debits made for each payment
    resp,            \* outcome of the API call that finished last
    plan,            \* state of one run of generateRandomMonitoringTimes
    report,          \* one day's attendance data and the scores computed from it
    users,           \* the employees' User documents (isActive, active)
    jobs,            \* the cron jobs scheduleEmployeeMonitoring has created
    monitoringJobs,  \* the monitoringJobs map: employee -> its jobs
    attendance,      \* the Attendance records of the day of each employee, in creation order
    captures         \* history: calls made to the presence capture

monVars == <<users, jobs, monitoringJobs, attendance, captures>>

vars == <<now, cronDue, payments, userBalance, companyBalance, calls, debits,
          resp, plan, report, users, jobs, monitoringJobs, attendance, captures>>

----------------------------------------------------------------------------
\* Bounds of the model

MaxPayments == 2
MaxFollowed == 1
MaxCalls == 2
MaxNow == 44
MaxBalance == 1
MaxDebits == 2
MaxSamples == 2

\* Program constants

HoursPerDay == 24
DailyPaymentsHour == 18
SweepHour == 0
ApprovalWindowHours == 1
AutoApproveThreshold == 70

\* Inputs

EmployeeData == [monthlySalary |-> 20, workingDays |-> 5]
TopUpAmounts == {1}
PaymentIds == 1 .. MaxPayments
Workers == {"w1", "w2"}
Slots == 1 .. MaxCalls

----------------------------------------------------------------------------
\* Helpers

Idle == [op |-> "idle"]

Exists(p) == p \in 1 .. Len(payments)

Day(t) == t \div HoursPerDay

HasFreeSlot == \E s \in Slots : calls[s] = Idle

FreeSlot == CHOOSE s \in Slots : calls[s] = Idle /\ \A u \in Slots : calls[u] = Idle => s <= u

SetPayment(p, r) == [payments EXCEPT ![p] = r]

\* helpers.js calculateDailyPayRate: parseFloat((monthlySalary /
\* workingDaysPerMonth).toFixed(2)); the employee data of the model divides evenly.
calculateDailyPayRate(monthlySalary, workingDaysPerMonth) ==
    IF monthlySalary = 0 \/ workingDaysPerMonth = 0 THEN 0
    ELSE monthlySalary \div workingDaysPerMonth

dailyRate == calculateDailyPayRate(EmployeeData.monthlySalary, EmployeeData.workingDays * 4)

\* helpers.js calculateEfficiency: parseFloat(((present / total) * 100).toFixed(2)),
\* here in hundredths of a percent (toFixed(2) rounds half up).
calculateEfficiency(present, total) ==
    IF total = 0 THEN 0 ELSE (present * 20000 + total) \div (2 * total)

\* models/Payment.js paymentSchema.status, the enum of the schema
StatusEnum == {"pending", "approved", "declined", "disputed", "completed"}

NewPayment(st, remit) ==
    [worker |-> "w1", day |-> Day(now), createdAt |-> now, status |-> st,
     amount |-> dailyRate, reference |-> FALSE, requiresAdminReview |-> FALSE,
     disputed |-> FALSE, disputeResolved |-> FALSE, remittanceDetails |-> remit]

\* Room in the bounded Payment collection, counting the creations under way.
Room == Len(payments) + Cardinality({s \in Slots : calls[s].op = "create"}) < MaxPayments

----------------------------------------------------------------------------
\* The clock and the cron table (scheduledTasks.js initScheduledTasks)

CronJobsAt(t) ==
    (IF t % HoursPerDay = DailyPaymentsHour THEN {"processDailyPayments"} ELSE {})
    \cup (IF t % HoursPerDay = SweepHour THEN {"handlePendingPayments"} ELSE {})

\* The hours between two runs of the sweeper: its cron pattern fires once a day.
SweepIntervalHours == HoursPerDay

Deadline(p) == payments[p].createdAt + ApprovalWindowHours

\* An instant at which a time-dependent condition of some handler changes.
Interesting(t) ==
    \/ CronJobsAt(t) # {}
    \/ \E p \in 1 .. Len(payments) :
          \/ t = Deadline(p) + 1
          \/ t = Deadline(p) + SweepIntervalHours + 1

Tick ==
    /\ cronDue = {}
    /\ \E t \in (now + 1) .. MaxNow :
          /\ Interesting(t)
          /\ \A u \in (now + 1) .. (t - 1) : ~Interesting(u)
          /\ now' = t
          /\ cronDue' = CronJobsAt(t)
    /\ UNCHANGED <<payments, userBalance, companyBalance, calls, debits,
                   resp, plan, report, monVars>>

----------------------------------------------------------------------------
\* Payment creation

\* scheduledTasks.js processDailyPayments (cron, 18:00), the iteration for the
\* employee.  clockIn/clockOut and present/total are what the attendance query
\* returned.  No lookup of an existing payment is made.
processDailyPayments(clockIn, clockOut, present, total) ==
    /\ "processDailyPayments" \in cronDue
    /\ cronDue' = cronDue \ {"processDailyPayments"}
    /\ IF ~(clockIn /\ clockOut)
       THEN payments' = payments
       ELSE /\ Room
            /\ LET efficiency == calculateEfficiency(present, total)
                   autoApprove == efficiency >= AutoApproveThreshold * 100
               IN payments' = Append(payments,
                      NewPayment(IF autoApprove THEN "pending_approval" ELSE "needs_review",
                                 FALSE))
    /\ UNCHANGED <<now, userBalance, companyBalance, calls, debits, resp, plan, report, monVars>>

\* paymentController.js exports.processDailyPayments (admin endpoint), the iteration
\* for the employee, up to the lookup of an existing payment of today.
ctlProcessDailyPayments_Begin(clockIn, clockOut) ==
    /\ HasFreeSlot
    /\ IF ~(clockIn /\ clockOut)
          \/ \E p \in 1 .. Len(payments) :
                payments[p].worker = "w1" /\ payments[p].day = Day(now)
       THEN /\ resp' = "ok"
            /\ calls' = calls
       ELSE /\ Room
            /\ calls' = [calls EXCEPT ![FreeSlot] = [op |-> "create", pc |-> "save"]]
            /\ resp' = resp
    /\ UNCHANGED <<now, cronDue, payments, userBalance, companyBalance, debits, plan, report, monVars>>

\* ... from Company.findById to payment.save()
ctlProcessDailyPayments_Save(s) ==
    /\ calls[s] = [op |-> "create", pc |-> "save"]
    /\ calls' = [calls EXCEPT ![s] = Idle]
    /\ IF companyBalance < dailyRate
       THEN payments' = Append(payments, NewPayment("failed", FALSE))
       ELSE payments' = Append(payments, NewPayment("pending", TRUE))
    /\ resp' = "ok"
    /\ UNCHANGED <<now, cronDue, userBalance, companyBalance, debits, plan, report, monVars>>

----------------------------------------------------------------------------
\* PaymentService (server.js)

\* A call ends: its slot is freed and its outcome is what the caller sees.
Return(s, r) ==
    /\ calls' = [calls EXCEPT ![s] = Idle]
    /\ resp' = r

\* The transfers of payment p that are under way or were debited: the model stops
\* starting transfers for a payment at MaxDebits of them.
Started(p) == debits[p] + Cardinality({s \in Slots : calls[s].op # "idle"
                                                     /\ calls[s].op # "create"
                                                     /\ calls[s].p = p})

\* approvePayment, from Payment.findById to the call of initiateTransfer.
\* employerData is the user the auth middleware loaded for the request.
approvePayment_Begin(p) ==
    /\ HasFreeSlot
    /\ IF ~Exists(p) THEN /\ resp' = "error"
                          /\ calls' = calls
       ELSE IF payments[p].status # "pending"
            THEN /\ resp' = "error"
                 /\ calls' = calls
       ELSE IF userBalance < payments[p].amount
            THEN /\ resp' = "error"
                 /\ calls' = calls
       ELSE /\ Started(p) < MaxDebits
            /\ calls' = [calls EXCEPT ![FreeSlot] =
                            [op |-> "approve", pc |-> "transfer", p |-> p]]
            /\ resp' = resp
    /\ UNCHANGED <<now, cronDue, payments, userBalance, companyBalance, debits, plan, report, monVars>>

\* ... initiateTransfer resolves; status "approved" and the reference are saved.
approvePayment_Transfer(s, accepted) ==
    /\ calls[s].op = "approve" /\ calls[s].pc = "transfer"
    /\ IF accepted
       THEN /\ payments' = SetPayment(calls[s].p,
                   [payments[calls[s].p] EXCEPT !.status = "approved", !.reference = TRUE])
            /\ calls' = [calls EXCEPT ![s].pc = "debit"]
            /\ resp' = resp
       ELSE /\ payments' = payments
            /\ Return(s, "error")
    /\ UNCHANGED <<now, cronDue, userBalance, companyBalance, debits, plan, report, monVars>>

\* ... User.findByIdAndUpdate($inc balance: -amount), then the notification, whose
\* failure makes the call throw.
approvePayment_Debit(s, notified) ==
    /\ calls[s].op = "approve" /\ calls[s].pc = "debit"
    /\ userBalance' = userBalance - payments[calls[s].p].amount
    /\ debits' = [debits EXCEPT ![calls[s].p] = @ + 1]
    /\ Return(s, IF notified THEN "ok" ELSE "error")
    /\ UNCHANGED <<now, cronDue, payments, companyBalance, plan, report, monVars>>

\* declinePayment
declinePayment(p, notified) ==
    /\ IF Exists(p) /\ payments[p].status = "pending"
       THEN /\ payments' = SetPayment(p, [payments[p] EXCEPT !.status = "declined"])
            /\ resp' = IF notified THEN "ok" ELSE "error"
       ELSE /\ payments' = payments
            /\ resp' = "error"
    /\ UNCHANGED <<now, cronDue, userBalance, companyBalance, calls, debits, plan, report, monVars>>

\* processAdminPaymentReview, approve = true: from Payment.findById over the balance
\* check on the employer read from the store to the call of initiateTransfer;
\* approve = false: the whole call.
processAdminPaymentReview_Begin(p, approve, notified) ==
    /\ HasFreeSlot
    /\ IF ~Exists(p) THEN /\ resp' = "error"
                          /\ UNCHANGED <<calls, payments>>
       ELSE IF payments[p].status # "declined"
            THEN /\ resp' = "error"
                 /\ UNCHANGED <<calls, payments>>
       ELSE IF approve
            THEN IF userBalance < payments[p].amount
                 THEN /\ resp' = "error"
                      /\ UNCHANGED <<calls, payments>>
                 ELSE /\ Started(p) < MaxDebits
                      /\ calls' = [calls EXCEPT ![FreeSlot] =
                                      [op |-> "review", pc |-> "transfer", p |-> p]]
                      /\ UNCHANGED <<resp, payments>>
       ELSE /\ payments' = SetPayment(p, [payments[p] EXCEPT !.status = "admin_rejected"])
            /\ resp' = IF notified THEN "ok" ELSE "error"
            /\ calls' = calls
    /\ UNCHANGED <<now, cronDue, userBalance, companyBalance, debits, plan, report, monVars>>

processAdminPaymentReview_Transfer(s, accepted) ==
    /\ calls[s].op = "review" /\ calls[s].pc = "transfer"
    /\ IF accepted
       THEN /\ payments' = SetPayment(calls[s].p,
                   [payments[calls[s].p] EXCEPT !.status = "admin_approved",
                                                !.reference = TRUE])
            /\ calls' = [calls EXCEPT ![s].pc = "debit"]
            /\ resp' = resp
       ELSE /\ payments' = payments
            /\ Return(s, "error")
    /\ UNCHANGED <<now, cronDue, userBalance, companyBalance, debits, plan, report, monVars>>

processAdminPaymentReview_Debit(s, notified) ==
    /\ calls[s].op = "review" /\ calls[s].pc = "debit"
    /\ userBalance' = userBalance - payments[calls[s].p].amount
    /\ debits' = [debits EXCEPT ![calls[s].p] = @ + 1]
    /\ Return(s, IF notified THEN "ok" ELSE "error")
    /\ UNCHANGED <<now, cronDue, payments, companyBalance, plan, report, monVars>>

\* addEmployerBalance, reached from verifyPaymentWebhook on charge.success of a top-up
addEmployerBalance(amount) ==
    /\ userBalance + amount <= MaxBalance
    /\ userBalance' = userBalance + amount
    /\ resp' = "ok"
    /\ UNCHANGED <<now, cronDue, payments, companyBalance, calls, debits, plan, report, monVars>>

\* verifyPaymentWebhook on transfer.success: Payment.findOneAndUpdate({reference}),
\* for the reference stored on payment p
verifyPaymentWebhook(p) ==
    /\ Exists(p) /\ payments[p].reference
    /\ payments' = SetPayment(p, [payments[p] EXCEPT !.status = "completed"])
    /\ resp' = "ok"
    /\ UNCHANGED <<now, cronDue, userBalance, companyBalance, calls, debits, plan, report, monVars>>

\* handleFailedTransferWebhook on transfer.failed: the update is a call of the bare
\* identifier findOneAndUpdate, which the module does not bind; the ReferenceError
\* is caught and the handler returns false.
handleFailedTransferWebhook(p) ==
    /\ Exists(p) /\ payments[p].reference
    /\ LET findOneAndUpdateBound == FALSE
       IN IF findOneAndUpdateBound
          THEN /\ payments' = SetPayment(p, [payments[p] EXCEPT !.status = "failed"])
               /\ resp' = "ok"
          ELSE /\ payments' = payments
               /\ resp' = "false"
    /\ UNCHANGED <<now, cronDue, userBalance, companyBalance, calls, debits, plan, report, monVars>>

----------------------------------------------------------------------------
\* Controllers

\* paymentController.js exports.processDailyPayment (employer approve / decline).
\* The only condition on the payment is the approval window.
processDailyPayment(p, action) ==
    /\ action \in {"approve", "decline"}
    /\ IF ~Exists(p)
       THEN /\ resp' = "error"
            /\ payments' = payments
       ELSE IF now - payments[p].createdAt > ApprovalWindowHours
            THEN /\ resp' = "error"
                 /\ payments' = payments
       ELSE /\ resp' = "ok"
            /\ payments' = SetPayment(p,
                  IF action = "approve"
                  THEN [payments[p] EXCEPT !.status = "approved"]
                  ELSE [payments[p] EXCEPT !.status = "declined",
                                           !.requiresAdminReview = TRUE])
    /\ UNCHANGED <<now, cronDue, userBalance, companyBalance, calls, debits, plan, report, monVars>>

\* paymentController.js exports.finalizePayment, action "approve": from
\* Payment.findById over the balance check on the company to the call of
\* processPayment; action "reject": the whole call.
finalizePayment_Begin(p, action) ==
    /\ action \in {"approve", "reject"}
    /\ HasFreeSlot
    /\ IF ~Exists(p) THEN /\ resp' = "error"
                          /\ UNCHANGED <<calls, payments>>
       ELSE IF ~payments[p].requiresAdminReview
            THEN /\ resp' = "error"
                 /\ UNCHANGED <<calls, payments>>
       ELSE IF action = "approve"
            THEN IF companyBalance < payments[p].amount
                 THEN /\ resp' = "error"
                      /\ UNCHANGED <<calls, payments>>
                 ELSE /\ Started(p) < MaxDebits
                      /\ calls' = [calls EXCEPT ![FreeSlot] =
                                      [op |-> "finalize", pc |-> "transfer", p |-> p,
                                       balance |-> companyBalance]]
                      /\ UNCHANGED <<resp, payments>>
       ELSE /\ payments' = SetPayment(p, [payments[p] EXCEPT
                                             !.status = "rejected",
                                             !.requiresAdminReview = FALSE])
            /\ resp' = "ok"
            /\ calls' = calls
    /\ UNCHANGED <<now, cronDue, userBalance, companyBalance, debits, plan, report, monVars>>

\* ... processPayment resolves.  Its arguments read payment.remittanceDetails, which
\* only a payment created by the admin endpoint has: without it the read throws
\* inside the try.  company.save() writes the balance computed from the company
\* document loaded before the transfer.
finalizePayment_Transfer(s, accepted) ==
    /\ calls[s].op = "finalize" /\ calls[s].pc = "transfer"
    /\ accepted => payments[calls[s].p].remittanceDetails
    /\ LET p == calls[s].p
       IN IF accepted
          THEN /\ payments' = SetPayment(p, [payments[p] EXCEPT
                                                !.status = "approved",
                                                !.requiresAdminReview = FALSE])
               /\ companyBalance' = calls[s].balance - payments[p].amount
               /\ debits' = [debits EXCEPT ![p] =
                                IF companyBalance' < companyBalance THEN @ + 1 ELSE @]
          ELSE /\ payments' = SetPayment(p, [payments[p] EXCEPT
                                                !.status = "failed",
                                                !.requiresAdminReview = FALSE])
               /\ UNCHANGED <<companyBalance, debits>>
    /\ Return(s, "ok")
    /\ UNCHANGED <<now, cronDue, userBalance, plan, report, monVars>>

\* adminController.js exports.resolvePaymentDispute
resolvePaymentDispute(p, resolution) ==
    /\ resolution \in {"approved", "rejected"}
    /\ IF ~Exists(p) THEN /\ resp' = "error"
                          /\ payments' = payments
       ELSE IF ~payments[p].disputed \/ payments[p].disputeResolved
            THEN /\ resp' = "error"
                 /\ payments' = payments
       ELSE /\ payments' = SetPayment(p, [payments[p] EXCEPT
                               !.disputeResolved = TRUE,
                               !.status = IF resolution = "approved" THEN "approved"
                                          ELSE "rejected"])
            /\ resp' = "ok"
    /\ UNCHANGED <<now, cronDue, userBalance, companyBalance, calls, debits, plan, report, monVars>>

\* paymentController.js exports.addBalance
addBalance(amount) ==
    /\ companyBalance + amount <= MaxBalance
    /\ companyBalance' = companyBalance + amount
    /\ resp' = "ok"
    /\ UNCHANGED <<now, cronDue, payments, userBalance, calls, debits, plan, report, monVars>>

----------------------------------------------------------------------------
\* The sweeper

Undefined == "undefined"

\* PaymentService.processDailyPayment(employeeData, employerData, companyData, date)
\* as its callers see it: reading employerData.balance throws when employerData is
\* undefined, and the catch rethrows; otherwise it creates a pending payment and
\* returns the record, which has no field `success`.
svcProcessDailyPayment(employeeData, employerData) ==
    IF employerData = Undefined THEN "throws"
    ELSE IF userBalance < dailyRate THEN "throws"
    ELSE "payment"

\* scheduledTasks.js handlePendingPayments (cron, midnight).  The payments it selects
\* are those in "pending_approval" created more than the approval window ago; it
\* calls paymentService.processDailyPayment(payment) with the payment alone.
Overdue(st) ==
    {p \in 1 .. Len(payments) :
        /\ payments[p].status = st
        /\ payments[p].createdAt < now - ApprovalWindowHours}

handlePendingPayments ==
    /\ "handlePendingPayments" \in cronDue
    /\ cronDue' = cronDue \ {"handlePendingPayments"}
    /\ IF Overdue("pending_approval") = {}
       THEN payments' = payments   \* the admins are told of Overdue("needs_review")
       ELSE LET p == CHOOSE q \in Overdue("pending_approval") :
                         \A r \in Overdue("pending_approval") : q <= r
                paymentResult == svcProcessDailyPayment(payments[p], Undefined)
            IN IF paymentResult = "throws"
               THEN payments' = payments   \* caught by the handler's outer catch
               ELSE payments' = SetPayment(p, [payments[p] EXCEPT !.status = "failed"])
    /\ UNCHANGED <<now, userBalance, companyBalance, calls, debits, resp, plan, report, monVars>>

----------------------------------------------------------------------------
\* The payment lifecycle as a whole

PlanIdle == [pc |-> "idle"]

NoReport == [pc |-> "none"]

Init ==
    /\ now = 0
    /\ cronDue = {}
    /\ payments = <<>>
    /\ userBalance = 0
    /\ companyBalance = 0
    /\ calls = [s \in Slots |-> Idle]
    /\ debits = [p \in PaymentIds |-> 0]
    /\ resp = "none"
    /\ plan = PlanIdle
    /\ report = NoReport
    /\ users = [w \in Workers |-> [isActive |-> TRUE, active |-> TRUE, schedule |-> "working"]]
    /\ jobs = <<>>
    /\ monitoringJobs = [w \in Workers |-> {}]
    /\ attendance = [w \in Workers |-> <<>>]
    /\ captures = 0

\* Spec follows the life of at most MaxFollowed payments through every handler.
Followed == Len(payments) + Cardinality({s \in Slots : calls[s].op = "create"}) < MaxFollowed

Next ==
    \/ Tick
    \/ \E ci, co \in BOOLEAN : \E total \in 0 .. MaxSamples : \E present \in 0 .. total :
          /\ (ci /\ co) => Followed
          /\ processDailyPayments(ci, co, present, total)
    \/ \E ci, co \in BOOLEAN :
          /\ ctlProcessDailyPayments_Begin(ci, co)
          /\ calls' # calls => Followed
    \/ \E s \in Slots : ctlProcessDailyPayments_Save(s)
    \/ \E p \in PaymentIds : approvePayment_Begin(p)
    \/ \E s \in Slots, ok \in BOOLEAN : approvePayment_Transfer(s, ok)
    \/ \E s \in Slots, n \in BOOLEAN : approvePayment_Debit(s, n)
    \/ \E p \in PaymentIds, n \in BOOLEAN : declinePayment(p, n)
    \/ \E p \in PaymentIds, a, n \in BOOLEAN : processAdminPaymentReview_Begin(p, a, n)
    \/ \E s \in Slots, ok \in BOOLEAN : processAdminPaymentReview_Transfer(s, ok)
    \/ \E s \in Slots, n \in BOOLEAN : processAdminPaymentReview_Debit(s, n)
    \/ \E a \in TopUpAmounts : addEmployerBalance(a)
    \/ \E p \in PaymentIds : verifyPaymentWebhook(p)
    \/ \E p \in PaymentIds : handleFailedTransferWebhook(p)
    \/ \E p \in PaymentIds, a \in {"approve", "decline"} : processDailyPayment(p, a)
    \/ \E p \in PaymentIds, a \in {"approve", "reject"} : finalizePayment_Begin(p, a)
    \/ \E s \in Slots, ok \in BOOLEAN : finalizePayment_Transfer(s, ok)
    \/ \E p \in PaymentIds, r \in {"approved", "rejected"} : resolvePaymentDispute(p, r)
    \/ \E a \in TopUpAmounts : addBalance(a)
    \/ handlePendingPayments

Spec == Init /\ [][Next]_vars

\* The creation passes alone, over the whole bounded Payment collection.
NextCreate ==
    \/ Tick
    \/ \E ci, co \in BOOLEAN : \E total \in 0 .. MaxSamples : \E present \in 0 .. total :
          processDailyPayments(ci, co, present, total)
    \/ \E ci, co \in BOOLEAN : ctlProcessDailyPayments_Begin(ci, co)
    \/ \E s \in Slots : ctlProcessDailyPayments_Save(s)
    \/ \E a \in TopUpAmounts : addBalance(a)
    \/ handlePendingPayments

SpecCreate == Init /\ [][NextCreate]_vars
----------------------------------------------------------------------------
\* utils/helpers.js: the monitoring-time planner.  A time of day is its minute
\* number; within one day the HH:mm text of a minute orders and compares as the
\* minute number does, and start.add(i, "minute") stays inside the day for
\* i <= totalMinutes.

MaxMinute == 4
MaxBreaks == 2
MaxCount == 2

Minutes == 0 .. MaxMinute

BreakPeriods == [startTime : Minutes, endTime : Minutes]

BreakLists ==
    UNION {[1 .. n -> {b \in BreakPeriods : b.startTime < b.endTime}] : n \in 0 .. MaxBreaks}

\* helpers.js isWorkingHour
isWorkingHour(currentTime, workStartTime, workEndTime, breakPeriods) ==
    IF currentTime < workStartTime \/ currentTime > workEndTime
    THEN FALSE
    ELSE \A k \in 1 .. Len(breakPeriods) :
             ~(currentTime > breakPeriods[k].startTime /\ currentTime < breakPeriods[k].endTime)

\* The allMinutes array built by the first loop of generateRandomMonitoringTimes.
AllMinutes(workStartTime, workEndTime, breakPeriods) ==
    LET totalMinutes == workEndTime - workStartTime
        timePoints == [i \in 1 .. (totalMinutes + 1) |-> workStartTime + (i - 1)]
        Eligible(timeString) == isWorkingHour(timeString, workStartTime, workEndTime, breakPeriods)
    IN SelectSeq(timePoints, Eligible)

Min(a, b) == IF a < b THEN a ELSE b

\* A splice that removes nothing: the drawn minute stays in allMinutes.
SpliceNothing(seq, index) == seq

\* Array.prototype.splice(index, 1), on a 1-based sequence
Splice(seq, index) == SubSeq(seq, 1, index - 1) \o SubSeq(seq, index + 1, Len(seq))

Earlier(a, b) == a < b

\* generateRandomMonitoringTimes, up to the selection loop
generateRandomMonitoringTimes_Begin(workStartTime, workEndTime, breakPeriods, count) ==
    /\ plan.pc = "idle"
    /\ LET allMinutes == AllMinutes(workStartTime, workEndTime, breakPeriods)
       IN plan' = [pc |-> "select",
                   workStartTime |-> workStartTime,
                   workEndTime |-> workEndTime,
                   breakPeriods |-> breakPeriods,
                   count |-> count,
                   allMinutes |-> allMinutes,
                   timesCount |-> Min(count, Len(allMinutes)),
                   i |-> 0,
                   randomTimes |-> <<>>]
    /\ UNCHANGED <<now, cronDue, payments, userBalance, companyBalance, calls, debits, resp, report, monVars>>

\* One pass of the selection loop; randomIndex is the value drawn from Math.random.
generateRandomMonitoringTimes_Select(randomIndex) ==
    /\ plan.pc = "select"
    /\ plan.i < plan.timesCount
    /\ randomIndex \in 1 .. Len(plan.allMinutes)
    /\ plan' = [plan EXCEPT !.randomTimes = Append(@, plan.allMinutes[randomIndex]),
                            !.allMinutes = Splice(@, randomIndex),
                            !.i = @ + 1]
    /\ UNCHANGED <<now, cronDue, payments, userBalance, companyBalance, calls, debits, resp, report, monVars>>

\* The sort and the return.
generateRandomMonitoringTimes_Return ==
    /\ plan.pc = "select"
    /\ ~(plan.i < plan.timesCount)
    /\ plan' = [plan EXCEPT !.pc = "done",
                            !.randomTimes = SortSeq(@, Earlier)]
    /\ UNCHANGED <<now, cronDue, payments, userBalance, companyBalance, calls, debits, resp, report, monVars>>

NextPlanner ==
    \/ /\ plan.pc = "idle"
       /\ \E ws, we \in Minutes, bp \in BreakLists, count \in 0 .. MaxCount :
             generateRandomMonitoringTimes_Begin(ws, we, bp, count)
    \/ \E randomIndex \in 1 .. (MaxMinute + 1) : generateRandomMonitoringTimes_Select(randomIndex)
    \/ generateRandomMonitoringTimes_Return

SpecPlanner == Init /\ [][NextPlanner]_vars

----------------------------------------------------------------------------
\* The efficiency figures of a day: the score PDFService.generateEfficiencyReport
\* prints and the efficiency the 18:00 payment job decides on.  A capture is
\* TRUE when the employee was seen (faceCaptures[i].success,
\* monitoringResults[i].isPresent).

MaxCaptures == 3
MaxReports == 1

CaptureLists == UNION {[1 .. n -> BOOLEAN] : n \in 0 .. MaxCaptures}

\* Math.round of num / den, for num >= 0 and den > 0
MathRound(num, den) == (2 * num + den) \div (2 * den)

Successes(faceCaptures) == Len(SelectSeq(faceCaptures, LAMBDA c : c))

\* server.js PDFService.generateEfficiencyReport, the score of the summary
totalScore(attendanceData, progressReports) ==
    LET attendanceScore ==
            IF attendanceData.clockIn /\ attendanceData.clockOut THEN 30
            ELSE IF attendanceData.clockIn \/ attendanceData.clockOut THEN 15
            ELSE 0
        presenceScore ==
            IF Len(attendanceData.faceCaptures) > 0
            THEN MathRound(Successes(attendanceData.faceCaptures) * 50,
                           Len(attendanceData.faceCaptures))
            ELSE 0
        reportingScore == IF progressReports > 0 THEN 20 ELSE 0
    IN attendanceScore + presenceScore + reportingScore

\* The days the figures are computed for: the attendance record, the number of
\* captures the day's plan held (some may not have been recorded) and the
\* number of progress reports.
Days ==
    {[pc |-> "day", clockIn |-> ci, clockOut |-> co, faceCaptures |-> fc,
      planned |-> pl, progressReports |-> pr, scored |-> FALSE, totalScore |-> 0,
      decided |-> FALSE, efficiency |-> 0, autoApprove |-> FALSE] :
        ci \in BOOLEAN, co \in BOOLEAN, fc \in CaptureLists,
        pl \in 0 .. MaxCaptures, pr \in 0 .. MaxReports}

generateEfficiencyReport ==
    /\ report.pc = "day"
    /\ ~report.scored
    /\ report' = [report EXCEPT !.scored = TRUE,
                                !.totalScore = totalScore(report, report.progressReports)]
    /\ UNCHANGED <<now, cronDue, payments, userBalance, companyBalance, calls, debits,
                   resp, plan, monVars>>

\* scheduledTasks.js processDailyPayments, the efficiency and the auto-approval
\* decision (in hundredths of a percent, as calculateEfficiency is modelled)
dailyPaymentEfficiency ==
    /\ report.pc = "day"
    /\ ~report.decided
    /\ report.clockIn /\ report.clockOut
    /\ LET efficiency == calculateEfficiency(Successes(report.faceCaptures),
                                             Len(report.faceCaptures))
       IN report' = [report EXCEPT !.decided = TRUE,
                                   !.efficiency = efficiency,
                                   !.autoApprove = efficiency >= AutoApproveThreshold * 100]
    /\ UNCHANGED <<now, cronDue, payments, userBalance, companyBalance, calls, debits,
                   resp, plan, monVars>>

InitEfficiency ==
    /\ now = 0
    /\ cronDue = {}
    /\ payments = <<>>
    /\ userBalance = 0
    /\ companyBalance = 0
    /\ calls = [s \in Slots |-> Idle]
    /\ debits = [p \in PaymentIds |-> 0]
    /\ resp = "none"
    /\ plan = PlanIdle
    /\ report \in {d \in Days : Len(d.faceCaptures) <= d.planned}
    /\ users = [w \in Workers |-> [isActive |-> TRUE, active |-> TRUE, schedule |-> "working"]]
    /\ jobs = <<>>
    /\ monitoringJobs = [w \in Workers |-> {}]
    /\ attendance = [w \in Workers |-> <<>>]
    /\ captures = 0

NextEfficiency ==
    \/ generateEfficiencyReport
    \/ dailyPaymentEfficiency

SpecEfficiency == InitEfficiency /\ [][NextEfficiency]_vars

----------------------------------------------------------------------------
\* Presence monitoring (jobs/scheduledTasks.js), one working day

MaxJobs == 4
MaxDeactivated == 1
MaxRecords == 2

\* The count scheduleEmployeeMonitoring passes to generateRandomMonitoringTimes
MonitoringAttempts == 10

\* User.workSchedule of the employees of the model: two working minutes, no break
workSchedule == [startTime |-> 0, endTime |-> 1, breaks |-> <<>>]

\* What an employee's stored workSchedule is like today: workingDays includes
\* the weekday ("working") or not ("off"), or breaks holds a null entry
\* ("malformed"), on which isWorkingHour throws a TypeError.
Schedules == {"working", "off", "malformed"}

JobIds == 1 .. Len(jobs)

\* generateRandomMonitoringTimes(startTime, endTime, breaks, 10) when the count
\* is not below the number of eligible minutes: every draw removes one minute
\* until none is left, and the sort returns them ascending.
monitoringTimes ==
    LET allMinutes == AllMinutes(workSchedule.startTime, workSchedule.endTime,
                                 workSchedule.breaks)
    IN SubSeq(allMinutes, 1, Min(MonitoringAttempts, Len(allMinutes)))

\* User.find({role: "employee", isActive: true, ...}), in the order of the store
ActiveEmployees == SelectSeq(<<"w1", "w2">>, LAMBDA w : users[w].isActive)

\* Attendance.findOne({employee, date: today}): the first record of the
\* employee, 0 for null
AttendanceOf(w) == IF attendance[w] = <<>> THEN 0 ELSE 1

\* A test that never takes the no-clock-in branch
NotClockedInNever(w, a) == FALSE

\* monitorEmployee: !attendance || !attendance.clockInTime
NotClockedIn(w, a) == a = 0 \/ ~attendance[w][a].clockInTime

\* The jobs of the loop for one employee: one cron job per monitoring time
JobsFor(w) == [k \in 1 .. Len(monitoringTimes) |->
                 [employee |-> w, time |-> monitoringTimes[k], stopped |-> FALSE, fired |-> FALSE]]

\* The state of jobs and monitoringJobs after the loop has handled the first n
\* employees of the list; a throw ends the loop (the catch is around all of it).
RECURSIVE ScheduleLoop(_, _, _, _)
ScheduleLoop(employees, n, js, mj) ==
    IF n > Len(employees) THEN [jobs |-> js, monitoringJobs |-> mj]
    ELSE LET w == employees[n]
         IN IF users[w].schedule = "off" THEN ScheduleLoop(employees, n + 1, js, mj)
            ELSE IF users[w].schedule = "malformed" THEN [jobs |-> js, monitoringJobs |-> mj]
            ELSE ScheduleLoop(employees, n + 1, js \o JobsFor(w),
                              [mj EXCEPT ![w] = (Len(js) + 1) .. (Len(js) + Len(monitoringTimes))])

\* scheduleEmployeeMonitoring, to the await of User.find: stops the jobs of the
\* map and clears it
scheduleEmployeeMonitoring_Begin ==
    /\ HasFreeSlot
    /\ jobs' = [j \in JobIds |->
                  IF \E w \in Workers : j \in monitoringJobs[w]
                  THEN [jobs[j] EXCEPT !.stopped = TRUE] ELSE jobs[j]]
    /\ monitoringJobs' = [w \in Workers |-> {}]
    /\ calls' = [calls EXCEPT ![FreeSlot] = [op |-> "schedule", pc |-> "find"]]
    /\ UNCHANGED <<now, cronDue, payments, userBalance, companyBalance, debits,
                   resp, plan, report, users, attendance, captures>>

\* scheduleEmployeeMonitoring, from the result of User.find to the end
scheduleEmployeeMonitoring_Register(s) ==
    /\ calls[s].op = "schedule"
    /\ LET after == ScheduleLoop(ActiveEmployees, 1, jobs, monitoringJobs)
       IN /\ Len(after.jobs) <= MaxJobs
          /\ jobs' = after.jobs
          /\ monitoringJobs' = after.monitoringJobs
    /\ calls' = [calls EXCEPT ![s] = Idle]
    /\ UNCHANGED <<now, cronDue, payments, userBalance, companyBalance, debits,
                   resp, plan, report, users, attendance, captures>>

\* A cron job of an employee fires: monitorEmployee to the first write or capture
monitorEmployee_Begin(j) ==
    /\ j \in JobIds
    /\ ~jobs[j].stopped /\ ~jobs[j].fired
    /\ HasFreeSlot
    /\ jobs' = [jobs EXCEPT ![j].fired = TRUE]
    /\ LET w == jobs[j].employee
           a == AttendanceOf(w)
       IN calls' = IF ~users[w].isActive THEN calls
                   ELSE IF NotClockedIn(w, a)
                   THEN [calls EXCEPT ![FreeSlot] =
                           [op |-> "monitor", pc |-> "absent", employee |-> w, attendance |-> a]]
                   ELSE IF users[w].schedule = "malformed" THEN calls
                   ELSE IF ~isWorkingHour(jobs[j].time, workSchedule.startTime,
                                          workSchedule.endTime, workSchedule.breaks)
                   THEN calls
                   ELSE [calls EXCEPT ![FreeSlot] =
                           [op |-> "monitor", pc |-> "capture", employee |-> w, attendance |-> a]]
    /\ UNCHANGED <<now, cronDue, payments, userBalance, companyBalance, debits,
                   resp, plan, report, users, monitoringJobs, attendance, captures>>

\* attendance.monitoringResults.push(result); attendance.save()
PushResult(w, a, result) ==
    [attendance EXCEPT ![w][a].monitoringResults = Append(@, result)]

\* monitorEmployee, the branch without a clock-in: Attendance.create with one
\* result, or a push on the record found
monitorEmployee_Absent(s) ==
    /\ calls[s].op = "monitor" /\ calls[s].pc = "absent"
    /\ LET result == [isPresent |-> FALSE, imageUrl |-> FALSE]
       IN attendance' =
            IF calls[s].attendance = 0
            THEN [attendance EXCEPT ![calls[s].employee] =
                    Append(@, [clockInTime |-> FALSE, clockOutTime |-> FALSE,
                               monitoringResults |-> <<result>>])]
            ELSE PushResult(calls[s].employee, calls[s].attendance, result)
    /\ calls' = [calls EXCEPT ![s] = Idle]
    /\ UNCHANGED <<now, cronDue, payments, userBalance, companyBalance, debits,
                   resp, plan, report, users, jobs, monitoringJobs, captures>>

CaptureOutcomes == {"throws", "failed", "match", "nomatch"}

\* monitorEmployee, the snapshot and the face verification
monitorEmployee_Capture(s, outcome) ==
    /\ calls[s].op = "monitor" /\ calls[s].pc = "capture"
    /\ captures < MaxJobs
    /\ captures' = captures + 1
    /\ attendance' =
         IF outcome = "throws" THEN attendance
         ELSE IF outcome = "failed"
         THEN PushResult(calls[s].employee, calls[s].attendance,
                         [isPresent |-> FALSE, imageUrl |-> FALSE])
         ELSE PushResult(calls[s].employee, calls[s].attendance,
                         [isPresent |-> outcome = "match", imageUrl |-> TRUE])
    /\ calls' = [calls EXCEPT ![s] = Idle]
    /\ UNCHANGED <<now, cronDue, payments, userBalance, companyBalance, debits,
                   resp, plan, report, users, jobs, monitoringJobs>>

\* Attendance.findOne({employee, date: today, clockOutTime: null}): the first
\* record of the employee without a clock-out, 0 for null
OpenAttendanceOf(w) ==
    IF \E a \in 1 .. Len(attendance[w]) : ~attendance[w][a].clockOutTime
    THEN CHOOSE a \in 1 .. Len(attendance[w]) :
             /\ ~attendance[w][a].clockOutTime
             /\ \A b \in 1 .. (a - 1) : attendance[w][b].clockOutTime
    ELSE 0

\* employeeController.clockIn, to the save: refused when a record of today
\* without a clock-out exists
clockIn_Begin(w) ==
    /\ HasFreeSlot
    /\ Len(attendance[w]) < MaxRecords
    /\ OpenAttendanceOf(w) = 0
    /\ calls' = [calls EXCEPT ![FreeSlot] = [op |-> "clockIn", pc |-> "save", employee |-> w]]
    /\ UNCHANGED <<now, cronDue, payments, userBalance, companyBalance, debits,
                   resp, plan, report, monVars>>

\* employeeController.clockIn, attendance.save()
clockIn_Save(s) ==
    /\ calls[s].op = "clockIn"
    /\ attendance' = [attendance EXCEPT ![calls[s].employee] =
                         Append(@, [clockInTime |-> TRUE, clockOutTime |-> FALSE,
                                    monitoringResults |-> <<>>])]
    /\ calls' = [calls EXCEPT ![s] = Idle]
    /\ UNCHANGED <<now, cronDue, payments, userBalance, companyBalance, debits,
                   resp, plan, report, users, jobs, monitoringJobs, captures>>

Deactivated(w) == ~users[w].isActive \/ ~users[w].active

\* The model deactivates at most MaxDeactivated employees.
MayDeactivate(w) ==
    Deactivated(w) \/ Cardinality({v \in Workers : Deactivated(v)}) < MaxDeactivated

\* employeeController.clockOut: sets clockOutTime on the record found
clockOut(w) ==
    /\ OpenAttendanceOf(w) # 0
    /\ attendance' = [attendance EXCEPT ![w][OpenAttendanceOf(w)].clockOutTime = TRUE]
    /\ UNCHANGED <<now, cronDue, payments, userBalance, companyBalance, calls, debits,
                   resp, plan, report, users, jobs, monitoringJobs, captures>>

\* paymentController.terminateEmployee: employee.isActive = false
terminateEmployee(w) ==
    /\ MayDeactivate(w)
    /\ users[w].isActive
    /\ users' = [users EXCEPT ![w].isActive = FALSE]
    /\ UNCHANGED <<now, cronDue, payments, userBalance, companyBalance, calls, debits,
                   resp, plan, report, jobs, monitoringJobs, attendance, captures>>

\* adminController.disableUser: user.active = false
disableUser(w) ==
    /\ MayDeactivate(w)
    /\ users[w].active
    /\ users' = [users EXCEPT ![w].active = FALSE]
    /\ UNCHANGED <<now, cronDue, payments, userBalance, companyBalance, calls, debits,
                   resp, plan, report, jobs, monitoringJobs, attendance, captures>>

InitMonitor ==
    /\ now = 0
    /\ cronDue = {}
    /\ payments = <<>>
    /\ userBalance = 0
    /\ companyBalance = 0
    /\ calls = [s \in Slots |-> Idle]
    /\ debits = [p \in PaymentIds |-> 0]
    /\ resp = "none"
    /\ plan = PlanIdle
    /\ report = NoReport
    /\ users \in [Workers -> {[isActive |-> TRUE, active |-> TRUE, schedule |-> sc] :
                                sc \in Schedules}]
    /\ jobs = <<>>
    /\ monitoringJobs = [w \in Workers |-> {}]
    /\ attendance = [w \in Workers |-> <<>>]
    /\ captures = 0

NextMonitor ==
    \/ scheduleEmployeeMonitoring_Begin
    \/ \E s \in Slots : scheduleEmployeeMonitoring_Register(s)
    \/ \E j \in 1 .. MaxJobs : monitorEmployee_Begin(j)
    \/ \E s \in Slots : monitorEmployee_Absent(s)
    \/ \E s \in Slots, outcome \in CaptureOutcomes : monitorEmployee_Capture(s, outcome)
    \/ \E w \in Workers : clockIn_Begin(w)
    \/ \E s \in Slots : clockIn_Save(s)
    \/ \E w \in Workers : terminateEmployee(w)
    \/ \E w \in Workers : disableUser(w)

SpecMonitor == InitMonitor /\ [][NextMonitor]_vars

\* The attendance records of a day of employees who stay active: clock-in,
\* clock-out and the monitoring jobs
NextAttendance ==
    \/ scheduleEmployeeMonitoring_Begin
    \/ \E s \in Slots : scheduleEmployeeMonitoring_Register(s)
    \/ \E j \in 1 .. MaxJobs : monitorEmployee_Begin(j)
    \/ \E s \in Slots : monitorEmployee_Absent(s)
    \/ \E s \in Slots, outcome \in CaptureOutcomes : monitorEmployee_Capture(s, outcome)
    \/ \E w \in Workers : clockIn_Begin(w)
    \/ \E s \in Slots : clockIn_Save(s)
    \/ \E w \in Workers : clockOut(w)

SpecAttendance == Init /\ [][NextAttendance]_vars

----------------------------------------------------------------------------
\* FaceService.captureRandomImages (server.js), the second generator of capture
\* times.  `plan` holds its state; times are minutes since midnight.

NoBreak == [present |-> FALSE, start |-> 0, end |-> 0]

\* The breakPeriod arguments: none, or one break
CaptureBreaks ==
    {NoBreak} \cup {[present |-> TRUE, start |-> bs, end |-> be] : bs \in Minutes, be \in Minutes}

\* captureTime >= breakStart && captureTime <= breakEnd, for an existing break
duringBreak(breakPeriod, captureTime) ==
    /\ breakPeriod.present
    /\ captureTime >= breakPeriod.start
    /\ captureTime <= breakPeriod.end

\* The values of Math.floor(Math.random() * totalWorkMinutes)
RandomMinutes(totalWorkMinutes) ==
    IF totalWorkMinutes > 0 THEN 0 .. (totalWorkMinutes - 1)
    ELSE totalWorkMinutes .. 0

\* captureRandomImages, up to the loop
captureRandomImages_Begin(workPeriod, breakPeriod, count) ==
    /\ plan.pc = "idle"
    /\ plan' = [pc |-> "draw",
                workStart |-> workPeriod.start,
                workEnd |-> workPeriod.end,
                breakPeriod |-> breakPeriod,
                totalWorkMinutes |->
                    IF breakPeriod.present
                    THEN (workPeriod.end - workPeriod.start) - (breakPeriod.end - breakPeriod.start)
                    ELSE workPeriod.end - workPeriod.start,
                count |-> count,
                i |-> 0,
                captureTimes |-> <<>>]
    /\ UNCHANGED <<now, cronDue, payments, userBalance, companyBalance, calls, debits,
                   resp, report, monVars>>

\* One pass of the do-while loop: a draw inside the break is drawn again, any
\* other draw is pushed and ends the loop for this i.
captureRandomImages_Draw(randomMinute) ==
    /\ plan.pc = "draw"
    /\ plan.i < plan.count
    /\ randomMinute \in RandomMinutes(plan.totalWorkMinutes)
    /\ LET captureTime == plan.workStart + randomMinute
       IN plan' = IF duringBreak(plan.breakPeriod, captureTime) THEN plan
                  ELSE [plan EXCEPT !.captureTimes = Append(@, captureTime),
                                    !.i = @ + 1]
    /\ UNCHANGED <<now, cronDue, payments, userBalance, companyBalance, calls, debits,
                   resp, report, monVars>>

\* captureTimes.sort() and the return
captureRandomImages_Return ==
    /\ plan.pc = "draw"
    /\ ~(plan.i < plan.count)
    /\ plan' = [plan EXCEPT !.pc = "returned",
                            !.captureTimes = SortSeq(@, Earlier)]
    /\ UNCHANGED <<now, cronDue, payments, userBalance, companyBalance, calls, debits,
                   resp, report, monVars>>

NextCapture ==
    \/ /\ plan.pc = "idle"
       /\ \E ws, we \in Minutes, bp \in CaptureBreaks, count \in 0 .. MaxCount :
             captureRandomImages_Begin([start |-> ws, end |-> we], bp, count)
    \/ \E randomMinute \in (0 - MaxMinute) .. MaxMinute : captureRandomImages_Draw(randomMinute)
    \/ captureRandomImages_Return

SpecCapture == Init /\ [][NextCapture]_vars

----------------------------------------------------------------------------
\* Vocabulary of the claims

\* The statuses in which a payment waits for the employer (the creation paths write
\* three different ones), and the status in which it waits for the admin review.
AwaitingStatuses == {"pending", "pending_approval", "needs_review"}

Awaiting(p) == payments[p].status \in AwaitingStatuses

AwaitingReview(p) == payments[p].status = "declined"

\* The two names the code gives the status of a payment the admin rejected.
AdminRejectedStatuses == {"admin_rejected", "rejected"}

Snapshot(p) == <<payments[p].status, userBalance, companyBalance>>

ApproveEntry(p) ==
    \/ approvePayment_Begin(p)
    \/ processDailyPayment(p, "approve")

DeclineEntry(p) ==
    \/ \E n \in BOOLEAN : declinePayment(p, n)
    \/ processDailyPayment(p, "decline")

AdminEntry(p, approve) ==
    \/ \E n \in BOOLEAN : processAdminPaymentReview_Begin(p, approve, n)
    \/ finalizePayment_Begin(p, IF approve THEN "approve" ELSE "reject")
    \/ resolvePaymentDispute(p, IF approve THEN "approved" ELSE "rejected")

\* A step that puts a transfer under way.
StartsTransfer == \E s \in Slots : calls[s] = Idle /\ calls'[s] # Idle /\ calls'[s].pc = "transfer"

----------------------------------------------------------------------------
C2_OnePaymentPerWorkerDay ==
    \A p, q \in 1 .. Len(payments) :
        (payments[p].worker = payments[q].worker /\ payments[p].day = payments[q].day)
            => p = q

\* The cron pass added a payment for a (worker, day) that already had one.
C2_CronAfterEndpoint ==
    /\ Len(payments) = 2
    /\ payments[1].day = payments[2].day
    /\ payments[1].status = "pending"
    /\ payments[2].status \in {"pending_approval", "needs_review"}

\* C3: a payment that waits for the employer leaves that state no later than one
\* sweep interval after its deadline.
C3_SweptWithinInterval ==
    \A p \in 1 .. Len(payments) :
        Awaiting(p) => now <= Deadline(p) + SweepIntervalHours

\* The sweeper has run over an overdue auto-approvable payment and left it as it was.
C3_OverdueAfterSweep ==
    \E p \in 1 .. Len(payments) :
        /\ payments[p].status = "pending_approval"
        /\ now % HoursPerDay = SweepHour
        /\ "handlePendingPayments" \notin cronDue
        /\ payments[p].createdAt < now - ApprovalWindowHours

\* C4: through every entry point that approves, an approve call on a payment that
\* does not wait for the employer is rejected with an error, leaves the status and
\* the balances unchanged and starts no transfer.
C4_ApproveOnlyFromPending ==
    [][\A p \in PaymentIds :
          (Exists(p) /\ ~Awaiting(p) /\ ApproveEntry(p))
              => /\ resp' = "error"
                 /\ Snapshot(p)' = Snapshot(p)
                 /\ ~StartsTransfer]_vars

\* C5: an approve call made while the payer's balance is below the amount is
\* rejected with an error: the payment stays as it was, nothing is debited and no
\* transfer is started.
C5_ApproveNeedsBalance ==
    [][\A p \in PaymentIds :
          (/\ Exists(p) /\ Awaiting(p)
           /\ userBalance < payments[p].amount
           /\ companyBalance < payments[p].amount
           /\ ApproveEntry(p))
              => /\ resp' = "error"
                 /\ Snapshot(p)' = Snapshot(p)
                 /\ ~StartsTransfer]_vars

\* C6: a decline on a payment that does not wait for the employer is rejected with
\* the status unchanged, and a decline never moves a payment anywhere but to the
\* admin-review state.
C6_DeclineOnlyFromPending ==
    [][\A p \in PaymentIds :
          (Exists(p) /\ DeclineEntry(p))
              => IF Awaiting(p)
                 THEN payments'[p].status \in {payments[p].status, "declined"}
                 ELSE payments'[p].status = payments[p].status /\ resp' = "error"]_vars

\* C7: through every admin entry point, a review of a payment that is not in the
\* admin-review state is rejected with the status and the balances unchanged, and a
\* review with approve = false of one that is makes it admin_rejected.
C7_ReviewOnlyFromAdminReview ==
    [][\A p \in PaymentIds : \A approve \in BOOLEAN :
          (Exists(p) /\ AdminEntry(p, approve))
              => IF AwaitingReview(p)
                 THEN approve \/ resp' = "error"
                              \/ payments'[p].status \in AdminRejectedStatuses
                 ELSE Snapshot(p)' = Snapshot(p) /\ ~StartsTransfer]_vars

Edge(a, b) ==
    \/ a \in AwaitingStatuses /\ b \in {"approved", "declined"}
    \/ a = "declined" /\ b \in {"admin_approved"} \cup AdminRejectedStatuses
    \/ a \in {"approved", "admin_approved"} /\ b \in {"completed", "failed", "paid"}

\* C9: every status change of a payment is an edge of the state machine, so no
\* status is entered twice and a terminal status is never left.
C9_MonotonicStatus ==
    [][\A p \in 1 .. Len(payments) :
          payments'[p].status # payments[p].status
              => Edge(payments[p].status, payments'[p].status)]_vars

\* The planner's input as the contract requires it: a proper window and disjoint
\* breaks inside it.
ValidInput(workStartTime, workEndTime, breakPeriods) ==
    /\ workStartTime < workEndTime
    /\ \A k \in 1 .. Len(breakPeriods) :
          /\ workStartTime <= breakPeriods[k].startTime
          /\ breakPeriods[k].startTime < breakPeriods[k].endTime
          /\ breakPeriods[k].endTime <= workEndTime
    /\ \A j, k \in 1 .. Len(breakPeriods) :
          j # k => \/ breakPeriods[j].endTime <= breakPeriods[k].startTime
                   \/ breakPeriods[k].endTime <= breakPeriods[j].startTime

\* C10: for a valid input, every instant the planner returns lies in
\* [workStart, workEnd) and in no break interval [start, end).
C10_InstantsInsideWindow ==
    (plan.pc = "done" /\ ValidInput(plan.workStartTime, plan.workEndTime, plan.breakPeriods))
        => \A k \in 1 .. Len(plan.randomTimes) :
              LET t == plan.randomTimes[k]
              IN /\ plan.workStartTime <= t /\ t < plan.workEndTime
                 /\ \A b \in 1 .. Len(plan.breakPeriods) :
                       ~(plan.breakPeriods[b].startTime <= t /\ t < plan.breakPeriods[b].endTime)

\* The planner returned the first minute of a break of a valid schedule.
C10_BreakStartReturned ==
    /\ plan.pc = "done"
    /\ ValidInput(plan.workStartTime, plan.workEndTime, plan.breakPeriods)
    /\ \E k \in 1 .. Len(plan.randomTimes) : \E b \in 1 .. Len(plan.breakPeriods) :
          plan.randomTimes[k] = plan.breakPeriods[b].startTime

\* C11: the list the planner returns is strictly ascending, so it holds no minute
\* twice, for every input and every outcome of the draws.
C11_StrictlyAscending ==
    plan.pc = "done"
        => \A j, k \in 1 .. Len(plan.randomTimes) :
              j < k => plan.randomTimes[j] < plan.randomTimes[k]

\* The planner returned a list of at least two instants.
C11_TwoInstantsReturned ==
    /\ plan.pc = "done"
    /\ Len(plan.randomTimes) >= 2

\* The eligible minutes as the contract defines them: the minutes of
\* [workStart, workEnd) that no break interval [start, end) covers.
EligibleMinutes(workStartTime, workEndTime, breakPeriods) ==
    {t \in workStartTime .. (workEndTime - 1) :
        \A b \in 1 .. Len(breakPeriods) :
            ~(breakPeriods[b].startTime <= t /\ t < breakPeriods[b].endTime)}

\* C12: for a valid input the planner returns min(count, number of eligible
\* minutes) instants, and all the eligible minutes when there are at most count.
C12_CountIsMinOfTargetAndEligible ==
    (plan.pc = "done" /\ ValidInput(plan.workStartTime, plan.workEndTime, plan.breakPeriods))
        => LET eligible == EligibleMinutes(plan.workStartTime, plan.workEndTime,
                                           plan.breakPeriods)
               returned == {plan.randomTimes[k] : k \in 1 .. Len(plan.randomTimes)}
           IN /\ Len(plan.randomTimes) = Min(plan.count, Cardinality(eligible))
              /\ Cardinality(eligible) <= plan.count => returned = eligible

\* The planner returned more instants than a valid schedule has eligible minutes.
C12_MoreThanEligible ==
    /\ plan.pc = "done"
    /\ ValidInput(plan.workStartTime, plan.workEndTime, plan.breakPeriods)
    /\ Len(plan.randomTimes) >
           Cardinality(EligibleMinutes(plan.workStartTime, plan.workEndTime,
                                       plan.breakPeriods))

\* The score the contract defines: attendance completeness, presence rate over the
\* planned captures, reporting completeness.
ContractScore(day) ==
    (IF day.clockIn /\ day.clockOut THEN 30
     ELSE IF day.clockIn \/ day.clockOut THEN 15 ELSE 0)
    + (IF day.planned > 0
       THEN MathRound(50 * Successes(day.faceCaptures), day.planned) ELSE 0)
    + (IF day.progressReports > 0 THEN 20 ELSE 0)

\* C13: the score computed for a day is attendance completeness plus the presence
\* rate over the planned captures plus reporting completeness, and the efficiency
\* the payment decision uses is that same score.
C13_ScoreIsContractScore ==
    /\ report.pc = "day" /\ report.scored
           => report.totalScore = ContractScore(report)
    /\ report.pc = "day" /\ report.decided
           => report.efficiency = 100 * ContractScore(report)

\* A day with fewer recorded captures than planned ones has been scored.
C13_UnrecordedCaptureScored ==
    /\ report.pc = "day"
    /\ report.scored
    /\ Successes(report.faceCaptures) > 0
    /\ Len(report.faceCaptures) < report.planned

\* C14: every efficiency figure computed for a day is a whole number between 0
\* and 100.
C14_ScoreIsIntegerInRange ==
    /\ report.pc = "day" /\ report.scored
           => report.totalScore \in 0 .. 100
    /\ report.pc = "day" /\ report.decided
           => report.efficiency \in {100 * k : k \in 0 .. 100}

\* The payment job computed the efficiency of a day with one capture in three seen.
C14_OneInThree ==
    /\ report.pc = "day"
    /\ report.decided
    /\ Len(report.faceCaptures) = 3
    /\ Successes(report.faceCaptures) = 1

\* C15: a sweep over an overdue payment whose efficiency reached the auto-approval
\* threshold takes the path of approve: with the payer's balance below the amount
\* it starts no transfer and debits nothing, and otherwise it settles the payment
\* with the balance debited by the amount exactly once.
C15_SweeperTakesApprovePath ==
    [][\A p \in PaymentIds :
          (/\ Exists(p)
           /\ payments[p].status = "pending_approval"
           /\ payments[p].createdAt < now - ApprovalWindowHours
           /\ handlePendingPayments)
              => IF userBalance < payments[p].amount
                 THEN /\ ~StartsTransfer
                      /\ debits'[p] = debits[p]
                      /\ userBalance' = userBalance
                 ELSE /\ ~Awaiting(p)'
                      /\ debits'[p] = debits[p] + 1
                      /\ userBalance' = userBalance - payments[p].amount]_vars

\* The sweeper has run over an overdue auto-approvable payment whose payer could
\* pay it.
C15_SweptWithFunds ==
    \E p \in 1 .. Len(payments) :
        /\ payments[p].status = "pending_approval"
        /\ payments[p].createdAt < now - ApprovalWindowHours
        /\ now % HoursPerDay = SweepHour
        /\ "handlePendingPayments" \notin cronDue
        /\ userBalance >= payments[p].amount

\* The monitoring results of an employee's records of the day, record after record
RECURSIVE ResultsOf(_)
ResultsOf(records) ==
    IF records = <<>> THEN <<>>
    ELSE Head(records).monitoringResults \o ResultsOf(Tail(records))

\* The results that report an absence without a snapshot
AbsentCount(results) ==
    Cardinality({k \in 1 .. Len(results) : ~results[k].isPresent /\ ~results[k].imageUrl})

HasClockIn(w) == \E a \in 1 .. Len(attendance[w]) : attendance[w][a].clockInTime

PlanRegistered(js, mj, w) ==
    /\ Cardinality(mj[w]) = Len(monitoringTimes)
    /\ \A k \in 1 .. Len(monitoringTimes) :
          \E j \in mj[w] : /\ j \in 1 .. Len(js)
                           /\ js[j].employee = w
                           /\ js[j].time = monitoringTimes[k]
                           /\ ~js[j].stopped

\* C17: scheduling is isolated per employee: when a day-start pass ends, every
\* active employee who works that weekday and whose schedule is well formed has a
\* plan with one registered job per instant, whatever the pass met at the others.
C17_SchedulingIsolated ==
    [][\A s \in Slots :
          (calls[s].op = "schedule" /\ calls'[s] = Idle)
              => \A w \in Workers :
                    (~Deactivated(w) /\ users[w].schedule = "working")
                        => PlanRegistered(jobs', monitoringJobs', w)]_vars

\* A day-start pass is under way over an employee whose schedule makes the planner
\* throw and another active employee who works today.
C17_PassOverMalformedSchedule ==
    /\ \E s \in Slots : calls[s].op = "schedule"
    /\ \E w, v \in Workers :
          /\ users[w].isActive /\ users[w].schedule = "malformed"
          /\ ~Deactivated(v) /\ users[v].schedule = "working"

\* The jobs of employee w that can still fire
Outstanding(js, w) ==
    {j \in 1 .. Len(js) : js[j].employee = w /\ ~js[j].stopped /\ ~js[j].fired}

\* C18: a step that deactivates an employee (termination by the employer or
\* disabling by an admin) leaves none of the employee's monitoring jobs able to
\* fire, and no step appends a monitoring result for a deactivated employee.
C18_DeactivationCancelsMonitoring ==
    [][\A w \in Workers :
          /\ (~Deactivated(w) /\ (~users'[w].isActive \/ ~users'[w].active))
                => Outstanding(jobs', w) = {}
          /\ Deactivated(w)
                => Len(ResultsOf(attendance'[w])) = Len(ResultsOf(attendance[w]))]_vars

\* An employee has been deactivated while monitoring jobs of the day were still
\* to fire.
C18_DeactivatedWithJobsToFire ==
    \E w \in Workers : Deactivated(w) /\ Outstanding(jobs, w) # {}

\* The jobs of employee w that have not been stopped
LiveJobs(w) == {j \in JobIds : jobs[j].employee = w /\ ~jobs[j].stopped}

\* C19: the day-start trigger is safe to invoke again, after or while an earlier
\* invocation runs: at no time does an employee have more live monitoring jobs
\* than the one plan of a single invocation registers.
C19_NoAdditionalLiveTimers ==
    \A w \in Workers : Cardinality(LiveJobs(w)) <= Len(monitoringTimes)

\* Two day-start passes are under way at the same time.
C19_OverlappingDayStarts ==
    \A s \in Slots : calls[s].op = "schedule"

\* The closed set of states of the contract.
ContractStatuses ==
    {"pending", "approved", "declined", "admin_review", "admin_approved",
     "admin_rejected", "settling", "completed", "failed"}

\* C20: in every reachable state the status of every payment is a member of the
\* declared closed set (the contract's states, or the enum of the Payment schema).
C20_StatusInClosedSet ==
    \A p \in 1 .. Len(payments) : payments[p].status \in ContractStatuses \cup StatusEnum

\* A payment carries the status the admin endpoint writes on a rejection.
C20_RejectedWritten ==
    \E p \in 1 .. Len(payments) : payments[p].status = "rejected"

C22_DebitedBeforeTransfer ==
    \A s \in Slots :
        (calls[s].op = "approve" /\ calls[s].pc = "transfer")
            => /\ payments[calls[s].p].status # "pending"
               /\ debits[calls[s].p] > 0

\* The transfer call of an approve is under way.
C22_ApproveTransferUnderWay ==
    \E s \in Slots : calls[s].op = "approve" /\ calls[s].pc = "transfer"

\* The admin approval entry points: processAdminPaymentReview and finalizePayment
AdminApprovalOps == {"review", "finalize"}

\* C23: an admin approval checks and debits the balance approve uses: it starts
\* a transfer only when the employer's balance covers the amount, and a debit it
\* makes for a payment takes the amount from that balance.
C23_AdminApprovalUsesPayerBalance ==
    [][\A s \in Slots :
          /\ (calls[s] = Idle /\ calls'[s].op \in AdminApprovalOps)
                => userBalance >= payments[calls'[s].p].amount
          /\ (/\ calls[s].op \in AdminApprovalOps
              /\ debits'[calls[s].p] = debits[calls[s].p] + 1)
                => userBalance' = userBalance - payments[calls[s].p].amount]_vars

\* An admin approval has debited a balance for a payment.
C23_AdminApprovalDebited ==
    \E p \in 1 .. Len(payments) :
        /\ debits[p] > 0
        /\ payments[p].status = "admin_approved"

C24_LiveTimersAreTheNewPlan ==
    [][\A s \in Slots :
          (calls[s].op = "schedule" /\ calls'[s] = Idle)
              => \A w \in Workers :
                    /\ (users[w].isActive /\ users[w].schedule = "working")
                          => PlanRegistered(jobs', monitoringJobs', w)
                    /\ \A j \in 1 .. Len(jobs') :
                          (jobs'[j].employee = w /\ ~jobs'[j].stopped)
                              => j \in monitoringJobs'[w]]_vars

\* A day-start pass is under way while jobs of an earlier pass are registered.
C24_PassOverEarlierPlan ==
    /\ \E s \in Slots : calls[s].op = "schedule"
    /\ jobs # <<>>

\* C25: a monitoring run that reached the presence capture (active employee,
\* clocked in, outside a break) appends exactly one result to the employee's
\* attendance of the day, whatever the capture does, also when it throws.
C25_CaptureRunAppendsOneResult ==
    [][\A s \in Slots :
          (calls[s].op = "monitor" /\ calls[s].pc = "capture" /\ calls'[s] = Idle)
              => Len(ResultsOf(attendance'[calls[s].employee]))
                    = Len(ResultsOf(attendance[calls[s].employee])) + 1]_vars

\* A monitoring run for a clocked-in employee is about to call the capture.
C25_CaptureAboutToRun ==
    \E s \in Slots : /\ calls[s].op = "monitor"
                     /\ calls[s].pc = "capture"
                     /\ HasClockIn(calls[s].employee)

\* C26: an employee has at most one attendance record of the day.
C26_OneAttendancePerWorkerDay ==
    \A w \in Workers : Len(attendance[w]) <= 1

\* An employee who clocked in and out today is clocking in again.
C26_ClockInAfterClockOut ==
    \E w \in Workers, s \in Slots :
        /\ calls[s].op = "clockIn"
        /\ calls[s].employee = w
        /\ Len(attendance[w]) = 1
        /\ attendance[w][1].clockInTime
        /\ attendance[w][1].clockOutTime

\* C30: an employee without a clock-in today is not refused as already clocked
\* in: the record clockIn looks for does not exist for them, also after a
\* monitoring job has recorded an absence for the day.
C30_ClockInNotRefused ==
    \A w \in Workers : ~HasClockIn(w) => OpenAttendanceOf(w) = 0

\* A monitoring job has recorded an absence for an employee who has not clocked
\* in today.
C30_AbsenceBeforeClockIn ==
    \E w \in Workers :
        /\ ~HasClockIn(w)
        /\ Len(attendance[w]) = 1
        /\ AbsentCount(attendance[w][1].monitoringResults) > 0

\* C27: for a window whose end is not after its start the planner returns no
\* instants.
C27_EmptyWindowRejected ==
    (plan.pc # "idle" /\ plan.workEndTime <= plan.workStartTime)
        => plan.randomTimes = <<>>

\* The planner has returned for a window whose end is not after its start.
C27_ReturnedForEmptyWindow ==
    /\ plan.pc = "done"
    /\ plan.workEndTime <= plan.workStartTime

\* The schedules the contract calls valid for one break: the window is not
\* empty and the break lies inside it.
ValidCaptureInput(workStart, workEnd, breakPeriod) ==
    /\ workStart < workEnd
    /\ breakPeriod.present => /\ workStart <= breakPeriod.start
                              /\ breakPeriod.start < breakPeriod.end
                              /\ breakPeriod.end <= workEnd

\* C28: generation of capture times cannot retry forever: for a valid schedule,
\* whenever the generator has a time left to draw, some value of the draw is
\* outside the break and ends the retry.
C28_DrawCanLeaveTheBreak ==
    (/\ plan.pc = "draw"
     /\ plan.i < plan.count
     /\ ValidCaptureInput(plan.workStart, plan.workEnd, plan.breakPeriod))
        => \E randomMinute \in RandomMinutes(plan.totalWorkMinutes) :
              ~duringBreak(plan.breakPeriod, plan.workStart + randomMinute)

\* The generator is drawing a time for a valid schedule with a break.
C28_DrawingAroundABreak ==
    /\ plan.pc = "draw"
    /\ plan.i < plan.count
    /\ plan.breakPeriod.present
    /\ ValidCaptureInput(plan.workStart, plan.workEnd, plan.breakPeriod)

====
